---- MODULE Spec2Model ----
(***************************************************************************)
(* A model of gwdetchar/omega/html.py: the static asset writer and its     *)
(* process-wide registries, the page shell builder's stylesheet/script     *)
(* resolution, the plot scaffold, the wrap_html decorator with the three   *)
(* wrapped page writers, the summary renderer and the configuration file   *)
(* highlighter.                                                            *)
(*                                                                         *)
(* Strings are sequences of chunks: every chunk is a piece of text, the    *)
(* string is the concatenation of its chunks, and "/" is the path          *)
(* separator.  Long literals (a CDN host, a file name) are one chunk.      *)
(***************************************************************************)
EXTENDS Integers, Sequences, FiniteSets, TLC

VARIABLES
    CSS_FILES,   \* module-level list of stylesheet paths
    JS_FILES,    \* module-level list of script paths
    fs,          \* the file system: path -> content of every file present
    dirs,        \* the directories present
    calls,       \* history: one record per write_static_files invocation
    head,        \* history: what the last init_page call did
    sc,          \* scaffold_plots: the frame of the running call
    wr,          \* wrapped writers: call stack, effects and last outcome
    cf,          \* write_config_html / write_summary: last call and result
    th           \* write_static_files run statement by statement in threads

vars == <<CSS_FILES, JS_FILES, fs, dirs, calls, head, sc, wr, cf, th>>

\* ------------------------------------------------------------------ bounds

MaxCalls == 3
MaxPlots == 7
MaxPerRow == 4
MaxInvocations == 1
MaxThreads == 2

\* ------------------------------------------------------------- os.path, str

Sep == "/"
CurDir == <<".">>
ParDir == <<"..">>

Last(s) == s[Len(s)]

\* str.endswith
endswith(f, b) ==
    /\ Len(b) <= Len(f)
    /\ SubSeq(f, Len(f) - Len(b) + 1, Len(f)) = b

\* os.path.join(a, b) for a relative b
join(a, b) ==
    IF a = <<>> THEN b
    ELSE IF Last(a) = Sep THEN a \o b
    ELSE a \o <<Sep>> \o b

\* index of the last separator of p, 0 when there is none
LastSep(p) ==
    LET S == {i \in 1..Len(p) : p[i] = Sep}
    IN  IF S = {} THEN 0 ELSE CHOOSE i \in S : \A j \in S : j <= i

\* os.path.basename
basename(p) == SubSeq(p, LastSep(p) + 1, Len(p))

\* list[::-1]
Reverse(s) == [i \in 1..Len(s) |-> s[Len(s) + 1 - i]]

\* x in list
In(x, s) == \E i \in 1..Len(s) : s[i] = x

\* number of occurrences of x in list s
Count(x, s) == Cardinality({i \in 1..Len(s) : s[i] = x})

\* ----------------------------------------------------------- the constants

BOOTSTRAP_CSS == <<Sep, Sep, "maxcdn", Sep, "bootstrap.min.css">>
FANCYBOX_CSS == <<Sep, Sep, "cdnjs", Sep, "jquery.fancybox.min.css">>
FONT_LATO_CSS == <<Sep, Sep, "fonts.googleapis.com", Sep, "css?family=Lato:300,700">>
JQUERY_JS == <<Sep, Sep, "code.jquery.com", Sep, "jquery.min.js">>
BOOTSTRAP_JS == <<Sep, Sep, "maxcdn", Sep, "bootstrap.min.js">>
FANCYBOX_JS == <<Sep, Sep, "cdnjs", Sep, "jquery.fancybox.min.js">>

BaselineCss == <<BOOTSTRAP_CSS, FANCYBOX_CSS, FONT_LATO_CSS>>
BaselineJs == <<JQUERY_JS, BOOTSTRAP_JS, FANCYBOX_JS>>

OmegaCssName == <<"omega.css">>
OmegaJsName == <<"omega.js">>

\* file contents: the two static texts, a file opened for writing and not
\* written, a page written by close_page and a content fragment (what a
\* page holds is kept with the invocation that wrote it, in wr.pages)
OMEGA_CSS == "OMEGA_CSS"
OMEGA_JS == "OMEGA_JS"
Truncated == "truncated"
PageFile == "page"
InnerFile == "inner"

\* --------------------------------------------------- write_static_files

\* where the file system may refuse: the step named fails when it is reached
FsFailures == {"none", "makedirs", "css_open", "css_write", "js_open", "js_write"}

\* the file system effects a call leaves in its log, in order
MadeDir(d) == [op |-> "makedirs", path |-> d]
Opened(path) == [op |-> "open", path |-> path]
Written(path) == [op |-> "write", path |-> path]

\* write_once without the registry test: the file is written on every call
write_once_unguarded(st, path, text, openFail, writeFail, fail) ==
    IF st.raised THEN st
    ELSE IF fail = openFail THEN [st EXCEPT !.raised = TRUE]
    ELSE IF fail = writeFail
         THEN [st EXCEPT !.raised = TRUE, !.fs = (path :> Truncated) @@ st.fs,
                         !.log = Append(st.log, Opened(path))]
    ELSE [st EXCEPT !.fs = (path :> text) @@ st.fs,
                    !.reg = Append(st.reg, path),
                    !.wrote = st.wrote \cup {path},
                    !.log = st.log \o <<Opened(path), Written(path)>>]

\* write_once registering the path before the file is written
write_once_register_first(st, path, text, openFail, writeFail, fail) ==
    IF st.raised \/ In(path, st.reg) THEN st
    ELSE IF fail = openFail
         THEN [st EXCEPT !.raised = TRUE, !.reg = Append(st.reg, path)]
    ELSE IF fail = writeFail
         THEN [st EXCEPT !.raised = TRUE, !.reg = Append(st.reg, path),
                         !.fs = (path :> Truncated) @@ st.fs,
                         !.log = Append(st.log, Opened(path))]
    ELSE [st EXCEPT !.fs = (path :> text) @@ st.fs,
                    !.reg = Append(st.reg, path),
                    !.wrote = st.wrote \cup {path},
                    !.log = st.log \o <<Opened(path), Written(path)>>]

\* `with open(path, 'w') as f: f.write(text)` followed by the registry append,
\* all under `if path not in registry`.  st is [reg, fs, raised, wrote, log];
\* openFail and writeFail name the file system failures of this block.
write_once(st, path, text, openFail, writeFail, fail) ==
    IF st.raised \/ In(path, st.reg) THEN st
    ELSE IF fail = openFail THEN [st EXCEPT !.raised = TRUE]
    ELSE IF fail = writeFail
         THEN [st EXCEPT !.raised = TRUE, !.fs = (path :> Truncated) @@ st.fs,
                         !.log = Append(st.log, Opened(path))]
    ELSE [st EXCEPT !.fs = (path :> text) @@ st.fs,
                    !.reg = Append(st.reg, path),
                    !.wrote = st.wrote \cup {path},
                    !.log = st.log \o <<Opened(path), Written(path)>>]

\* the whole function, from registries C and J, files F and directories D
write_static_files(static, fail, C, J, F, D) ==
    LET mk == static \notin D
        r0 == mk /\ fail = "makedirs"
        D1 == IF mk /\ ~r0 THEN D \cup {static} ELSE D
        omegacss == join(static, OmegaCssName)
        omegajs == join(static, OmegaJsName)
        s0 == [reg |-> C, fs |-> F, raised |-> r0, wrote |-> {},
               log |-> IF mk /\ ~r0 THEN <<MadeDir(static)>> ELSE <<>>]
        s1 == write_once(s0, omegacss, OMEGA_CSS, "css_open", "css_write", fail)
        s2 == write_once([s1 EXCEPT !.reg = J], omegajs, OMEGA_JS,
                         "js_open", "js_write", fail)
    IN  [CSS |-> s1.reg,
         JS |-> s2.reg,
         fs |-> s2.fs,
         dirs |-> D1,
         raised |-> s2.raised,
         wrote |-> s2.wrote,
         log |-> s2.log,
         ret |-> IF s2.raised THEN <<>> ELSE <<omegacss, omegajs>>]

\* ------------------------------------------------------------- init_page

\* the loop `for f in REG[::-1]: if not any(x.endswith(basename(f)) ...):
\* lst.insert(0, f)`, over the reversed registry rev
RECURSIVE prepend_missing(_, _)
prepend_missing(rev, lst) ==
    IF rev = <<>> THEN lst
    ELSE LET f == Head(rev)
             b == basename(f)
         IN  prepend_missing(Tail(rev),
                 IF \E i \in 1..Len(lst) : endswith(lst[i], b)
                 THEN lst
                 ELSE <<f>> \o lst)

\* `css = css[:]` and the loop: the caller's list object and the resolved one
resolve_links(caller, REG) ==
    [caller |-> caller, resolved |-> prepend_missing(Reverse(REG), caller)]

StaticDir == join(CurDir, <<"static">>)

\* one element of a page's body, with what it shows
Element(t, arg) == [t |-> t, arg |-> arg]

NoPage == [ifo |-> "", gpstime |-> "", base |-> <<>>, title |-> <<>>,
           css |-> <<>>, script |-> <<>>, body |-> <<>>]

\* init_page(ifo, gpstime, css, script, base, title=...): the static files,
\* then the head and the banner.  The answer holds the new registries and
\* file system, the page, and the caller's two list objects after the call.
init_page(ifo, gpstime, css, script, base, title, fail, C, J, F, D) ==
    LET w == write_static_files(StaticDir, fail, C, J, F, D)
        c == resolve_links(css, w.CSS)
        s == resolve_links(script, w.JS)
    IN  [w |-> w,
         raised |-> w.raised,
         callerCss |-> IF w.raised THEN css ELSE c.caller,
         callerScript |-> IF w.raised THEN script ELSE s.caller,
         page |-> IF w.raised THEN NoPage
                  ELSE [ifo |-> ifo, gpstime |-> gpstime, base |-> base,
                        title |-> title, css |-> c.resolved,
                        script |-> s.resolved,
                        body |-> <<Element("banner", <<ifo, " Omega Scan">>)>>]]

\* ---------------------------------------------------------- scaffold_plots

GridColumns == 12

\* the markup emitted: div(class_=...), div.close(), and fancybox_img(p)
Div(class, x) == [t |-> "div", class |-> class, x |-> x, img |-> ""]
DivClose == [t |-> "/div", class |-> "", x |-> 0, img |-> ""]
fancybox_img(p) == [t |-> "a-img", class |-> "fancybox", x |-> 0, img |-> p]

\* the body of `for i, p in enumerate(plots)`, from index i (counted from 0)
RECURSIVE scaffold_loop(_, _, _, _)
scaffold_loop(plots, nperrow, i, page) ==
    IF i >= Len(plots) THEN page
    ELSE LET x == GridColumns \div nperrow
             p1 == IF i % nperrow = 0 THEN Append(page, Div("row", 0)) ELSE page
             p2 == p1 \o <<Div("col-sm", x), fancybox_img(plots[i + 1]), DivClose>>
             p3 == IF i % nperrow = nperrow - 1 THEN Append(p2, DivClose) ELSE p2
         IN  scaffold_loop(plots, nperrow, i + 1, p3)

\* the trailing block with the row closed whatever i is
close_partial_row_always(i, nperrow, page) == Append(page, DivClose)

\* `if i % nperrow < nperrow-1: page.div.close()`, i the last loop index
close_partial_row(i, nperrow, page) ==
    IF i % nperrow < nperrow - 1 THEN Append(page, DivClose) ELSE page

\* the whole function; with no plots the loop never binds i and the
\* trailing test raises UnboundLocalError
scaffold_plots(plots, nperrow) ==
    LET page == scaffold_loop(plots, nperrow, 0, <<>>)
    IN  IF Len(plots) = 0
        THEN [raised |-> "UnboundLocalError", page |-> <<>>]
        ELSE [raised |-> "",
              page |-> close_partial_row(Len(plots) - 1, nperrow, page)]

\* -------------------------------------------------- optional values, dicts

\* None, and a value that is present
None == <<>>
Some(x) == <<x>>

\* a dict without one key (dict.pop drops it)
Without(kw, key) == [k \in DOMAIN kw \ {key} |-> kw[k]]

\* ------------------------------------------------------- write_config_html

\* what the syntax highlighter's process and the file do for one call:
\* popen is "started", "OSError" or "ValueError" (subprocess.Popen raising),
\* returncode and out are the process's, readable and text the file's
write_config_html_ignoring_returncode(filepath, format, env) ==
    IF env.popen = "OSError"
    THEN IF env.readable THEN [raised |-> "", ret |-> env.text]
         ELSE [raised |-> "IOError", ret |-> ""]
    ELSE IF env.popen # "started" THEN [raised |-> env.popen, ret |-> ""]
    ELSE [raised |-> "", ret |-> env.out]

write_config_html(filepath, format, env) ==
    IF env.popen = "OSError"
    THEN IF env.readable THEN [raised |-> "", ret |-> env.text]
         ELSE [raised |-> "IOError", ret |-> ""]
    ELSE IF env.popen # "started" THEN [raised |-> env.popen, ret |-> ""]
    ELSE IF env.returncode # 0
    THEN IF env.readable THEN [raised |-> "", ret |-> env.text]
         ELSE [raised |-> "IOError", ret |-> ""]
    ELSE [raised |-> "", ret |-> env.out]

\* ------------------------------------------------------------ write_summary

OBSERVATORY_MAP ==
    [ifo \in {"G1", "H1", "K1", "L1", "V1"} |->
        CASE ifo = "G1" -> "GEO"
          [] ifo = "H1" -> "LIGO Hanford"
          [] ifo = "K1" -> "KAGRA"
          [] ifo = "L1" -> "LIGO Livingston"
          [] ifo = "V1" -> "Virgo"]

\* write_summary without the code in parentheses
write_summary_name_only(ifo, gpstime) ==
    IF ifo \notin DOMAIN OBSERVATORY_MAP
    THEN [raised |-> "KeyError", cell |-> <<>>, utc |-> <<>>]
    ELSE [raised |-> "",
          cell |-> <<OBSERVATORY_MAP[ifo]>>,
          utc |-> <<"tconvert(", gpstime, ")">>]

\* the table's two cells: "%s (%s)" % (OBSERVATORY_MAP[ifo], ifo) and the
\* UTC time
write_summary(ifo, gpstime) ==
    IF ifo \notin DOMAIN OBSERVATORY_MAP
    THEN [raised |-> "KeyError", cell |-> <<>>, utc |-> <<>>]
    ELSE [raised |-> "",
          cell |-> <<OBSERVATORY_MAP[ifo], " (", ifo, ")">>,
          utc |-> <<"tconvert(", gpstime, ")">>]

\* ------------------------------------------------- write_footer, close_page

\* write_footer(about=about): the attribution, then the link when about is
\* not None
write_footer(about) ==
    Element("footer",
            IF about # None
            THEN Some([text |-> "How was this page generated?", href |-> about[1]])
            ELSE None)

\* close_page up to the write: the container closed and the footer added
close_page(page, about) ==
    [page EXCEPT !.body = Append(page.body, write_footer(about))]

\* ------------------------------------------------- the wrapped page writers

InnerName == <<"_inner.html">>
IndexName == <<"index.html">>
AboutName == <<"about">>

\* the content functions; env is what the highlighter and the configuration
\* file do during the call.  write_block scaffolds each channel's plots in
\* rows of three.
ScaffoldAll(blocks) == [k \in 1..Len(blocks) |-> scaffold_plots(blocks[k], 3)]

write_qscan_page(blocks) ==
    LET pages == ScaffoldAll(blocks)
        bad == {k \in 1..Len(pages) : pages[k].raised # ""}
    IN  IF bad # {}
        THEN [raised |-> pages[CHOOSE k \in bad : \A m \in bad : k <= m].raised,
              kind |-> "qscan", body |-> <<>>]
        ELSE [raised |-> "", kind |-> "qscan",
              body |-> [k \in 1..Len(pages) |-> pages[k].page]]

write_null_page(reason) ==
    [raised |-> "", kind |-> "null", body |-> <<reason, "info">>]

write_about_page(configfiles, env) ==
    LET pre == [k \in 1..Len(configfiles) |->
                    write_config_html(configfiles[k], "ini", env)]
        bad == {k \in 1..Len(pre) : pre[k].raised # ""}
    IN  IF bad # {}
        THEN [raised |-> pre[CHOOSE k \in bad : \A m \in bad : k <= m].raised,
              kind |-> "about", body |-> <<>>]
        ELSE [raised |-> "", kind |-> "about",
              body |-> [k \in 1..Len(pre) |-> pre[k].ret]]

\* func(*args, **kwargs): every option the wrapper did not pop reaches the
\* content function, none of which takes one of the wrapper's options
call_func(func, args, kwargs, env) ==
    IF DOMAIN kwargs # {}
    THEN [raised |-> "TypeError", kind |-> "", body |-> <<>>]
    ELSE CASE func = "write_qscan_page" -> write_qscan_page(args)
           [] func = "write_null_page" -> write_null_page(args)
           [] func = "write_about_page" -> write_about_page(args, env)

\* ------------------------------------------------ wrap_html.decorated_func

\* decorated_func going from the creation of outdir straight to init_page
enter_skipping_about(func, ifo, gpstime, args, kwargs, fail, D) ==
    LET title == IF "title" \in DOMAIN kwargs THEN kwargs["title"]
                 ELSE <<ifo, " Qscan | ", gpstime>>
        base == IF "base" \in DOMAIN kwargs THEN kwargs["base"] ELSE CurDir
        k1 == Without(Without(kwargs, "title"), "base")
        outdir == IF "outdir" \in DOMAIN k1 THEN k1["outdir"] ELSE base
        k2 == Without(k1, "outdir")
        mk == outdir \notin D
        raised == mk /\ fail = "makedirs"
    IN  [raised |-> raised,
         dirs |-> IF mk /\ ~raised THEN D \cup {outdir} ELSE D,
         log |-> IF mk /\ ~raised THEN <<MadeDir(outdir)>> ELSE <<>>,
         frame |-> [func |-> func, ifo |-> ifo, gpstime |-> gpstime,
                    args |-> args, kwargs |-> k2,
                    initargs |-> [title |-> title, base |-> base],
                    outdir |-> outdir, about |-> None, page |-> NoPage,
                    pc |-> "init"]]

\* decorated_func from its entry to the creation of outdir: the frame of
\* the call, positioned before the about page
enter(func, ifo, gpstime, args, kwargs, fail, D) ==
    LET title == IF "title" \in DOMAIN kwargs THEN kwargs["title"]
                 ELSE <<ifo, " Qscan | ", gpstime>>
        base == IF "base" \in DOMAIN kwargs THEN kwargs["base"] ELSE CurDir
        k1 == Without(Without(kwargs, "title"), "base")
        outdir == IF "outdir" \in DOMAIN k1 THEN k1["outdir"] ELSE base
        k2 == Without(k1, "outdir")
        mk == outdir \notin D
        raised == mk /\ fail = "makedirs"
    IN  [raised |-> raised,
         dirs |-> IF mk /\ ~raised THEN D \cup {outdir} ELSE D,
         log |-> IF mk /\ ~raised THEN <<MadeDir(outdir)>> ELSE <<>>,
         frame |-> [func |-> func, ifo |-> ifo, gpstime |-> gpstime,
                    args |-> args, kwargs |-> k2,
                    initargs |-> [title |-> title, base |-> base],
                    outdir |-> outdir, about |-> None, page |-> NoPage,
                    pc |-> "about"]]

\* the about page's base left as the main page's
about_base_unchanged(base) == base

\* `if iargs['base'] == os.path.curdir: iargs['base'] = os.path.pardir`
about_base(base) == IF base = CurDir THEN ParDir ELSE base

\* the nested call passing the configuration on as an option
nested_call_kwargs_with_config(iargs, aboutdir, config) ==
    ("outdir" :> aboutdir) @@ ("config" :> config) @@ iargs

\* the nested call without its outdir: the about page lands in its base
nested_call_kwargs_without_outdir(iargs, aboutdir, config) == iargs

\* the options of write_about_page(ifo, gpstime, config, outdir=aboutdir,
\* **iargs)
nested_call_kwargs(iargs, aboutdir, config) ==
    ("outdir" :> aboutdir) @@ iargs

\* `if os.path.basename(about) == 'index.html': about = about[:-10]`: the
\* ten characters dropped are the chunk 'index.html'
strip_index(about) ==
    IF basename(about) = IndexName THEN SubSeq(about, 1, Len(about) - 1)
    ELSE about

\* `if about:`
wants_summary(about) == about # None /\ about[1] # <<>>

\* ------------------------------------------- the asset writer's processes

\* directory strings handed to write_static_files: two spell one directory
StaticDirs == {StaticDir, <<"out">>, <<"out", Sep>>}

\* stylesheets and scripts a caller of init_page supplies
MyFancyCss == <<"my", Sep, "jquery.fancybox.min.css">>
SiteCss == <<"my", Sep, "site.css">>
ThemeCss == <<"my", Sep, "dark-", "bootstrap.min.css">>
MyFancyJs == <<"my", Sep, "jquery.fancybox.min.js">>
SiteJs == <<"my", Sep, "site.js">>
CallerCss == {<<>>, <<MyFancyCss>>, <<MyFancyCss, SiteCss>>, <<ThemeCss, MyFancyCss>>}
CallerJs == {<<>>, <<MyFancyJs, SiteJs>>}

NoHead == [done |-> FALSE, raised |-> FALSE,
           css |-> <<>>, cssAfter |-> <<>>, regCss |-> <<>>, links |-> <<>>,
           script |-> <<>>, scriptAfter |-> <<>>, regJs |-> <<>>, scripts |-> <<>>]

NoSc == [phase |-> "idle"]
NoCall == [func |-> "", ifo |-> "", args |-> <<>>, kwargs |-> <<>>]
\* the outcome of a call: for an exception, the statement and the depth of
\* the frame it arose in
NoResult == [done |-> FALSE, raised |-> "", ret |-> None, at |-> None]
RaisedAt(pc, depth) == Some([pc |-> pc, depth |-> depth])
NoWr == [stack |-> <<>>, events |-> <<>>, pages |-> <<>>, inner |-> <<>>,
         steps |-> 0,
         call |-> NoCall, result |-> NoResult, n |-> 0]
NoCf == [phase |-> "idle"]

\* a thread inside write_static_files: the statement it is at, its
\* argument, and for each of the two blocks how often the registry held the
\* path at its test (seen) and at its append (found), and what it did
Threads == 1..MaxThreads
Kinds == {"css", "js"}
At(at, kind) == [at |-> at, kind |-> kind]
NoBlock == [checked |-> FALSE, seen |-> 0, entered |-> FALSE, wrote |-> FALSE,
            appended |-> FALSE, found |-> 0]
IdleThread == [pc |-> At("idle", ""), static |-> <<>>, raised |-> "",
               blocks |-> [k \in Kinds |-> NoBlock]]
NoTh == [threads |-> [t \in Threads |-> IdleThread], last |-> <<>>]

Fresh ==
    /\ CSS_FILES = BaselineCss
    /\ JS_FILES = BaselineJs
    /\ fs = <<>>
    /\ dirs = {CurDir}
    /\ calls = <<>>
    /\ head = NoHead
    /\ th = NoTh

Init ==
    /\ Fresh
    /\ sc = NoSc
    /\ wr = NoWr
    /\ cf = NoCf

\* the history record of one write_static_files invocation
CallRecord(static, fail, w) ==
    [static |-> static, fail |-> fail, raised |-> w.raised,
     wrote |-> w.wrote, ret |-> w.ret,
     cssBefore |-> CSS_FILES, cssAfter |-> w.CSS,
     jsBefore |-> JS_FILES, jsAfter |-> w.JS]

\* a failure is drawn only where the step it names is reached
Reached(fail, w) == fail = "none" \/ w.raised

\* a direct call write_static_files(static)
WriteStaticFiles(static, fail) ==
    /\ Len(calls) < MaxCalls
    /\ \E w \in {write_static_files(static, fail, CSS_FILES, JS_FILES, fs, dirs)} :
           /\ Reached(fail, w)
           /\ CSS_FILES' = w.CSS
           /\ JS_FILES' = w.JS
           /\ fs' = w.fs
           /\ dirs' = w.dirs
           /\ calls' = Append(calls, CallRecord(static, fail, w))
    /\ UNCHANGED <<head, sc, wr, cf, th>>

\* a direct call init_page(ifo, gpstime, css=css, script=script)
InitPage(css, script, fail) ==
    /\ Len(calls) < MaxCalls
    /\ \E r \in {init_page("H1", "t0", css, script, CurDir, <<>>, fail,
                            CSS_FILES, JS_FILES, fs, dirs)} :
           /\ Reached(fail, r.w)
           /\ CSS_FILES' = r.w.CSS
           /\ JS_FILES' = r.w.JS
           /\ fs' = r.w.fs
           /\ dirs' = r.w.dirs
           /\ calls' = Append(calls, CallRecord(StaticDir, fail, r.w))
           /\ head' = [done |-> TRUE, raised |-> r.raised,
                       css |-> css, cssAfter |-> r.callerCss,
                       regCss |-> r.w.CSS, links |-> r.page.css,
                       script |-> script, scriptAfter |-> r.callerScript,
                       regJs |-> r.w.JS, scripts |-> r.page.script]
    /\ UNCHANGED <<sc, wr, cf, th>>

Next ==
    \/ \E static \in StaticDirs, fail \in FsFailures : WriteStaticFiles(static, fail)
    \/ \E css \in CallerCss, script \in CallerJs, fail \in FsFailures :
           InitPage(css, script, fail)

Spec == Init /\ [][Next]_vars

\* ------------------------------------------------------------ C1, C2, C3

NoDuplicates(s) == \A i, j \in 1..Len(s) : i # j => s[i] # s[j]

\* the successful writes of path p by the first n invocations
WritesOf(p, n) == Cardinality({k \in 1..n : p \in calls[k].wrote})

\* C1: of two completed write_static_files calls with the same directory
\* string the later one writes no file and both return the same pair; once a
\* call with a directory has completed, omega.css and omega.js of that
\* directory have each been written exactly once, however many calls follow;
\* each registry has grown by at most one entry per distinct directory.
C1_WriteOncePerDirectory ==
    /\ \A i, j \in 1..Len(calls) :
          (i < j /\ calls[i].static = calls[j].static
                 /\ ~calls[i].raised /\ ~calls[j].raised)
          => /\ calls[j].wrote = {}
             /\ calls[j].ret = calls[i].ret
    /\ \A i \in 1..Len(calls) :
          ~calls[i].raised
          => /\ calls[i].ret = <<join(calls[i].static, OmegaCssName),
                                 join(calls[i].static, OmegaJsName)>>
             /\ WritesOf(calls[i].ret[1], Len(calls)) = 1
             /\ WritesOf(calls[i].ret[2], Len(calls)) = 1
    /\ LET called == {calls[i].static : i \in 1..Len(calls)}
       IN  /\ Len(CSS_FILES) - Len(BaselineCss) <= Cardinality(called)
           /\ Len(JS_FILES) - Len(BaselineJs) <= Cardinality(called)

\* two completed calls with one directory string, the first of which wrote
\* both files
C1_Witness ==
    \E i, j \in 1..Len(calls) :
        /\ i < j /\ calls[i].static = calls[j].static
        /\ ~calls[i].raised /\ ~calls[j].raised
        /\ Cardinality(calls[i].wrote) = 2

\* C2: no path occurs twice in CSS_FILES or in JS_FILES; every path a
\* registry holds beyond the baseline is a file that was written in full;
\* an invocation changes a registry only by appending a path it wrote, and
\* an invocation whose write of a file raised left that file's registry as
\* it was.
C2_RegistryInvariant ==
    /\ NoDuplicates(CSS_FILES)
    /\ NoDuplicates(JS_FILES)
    /\ \A i \in Len(BaselineCss) + 1..Len(CSS_FILES) :
          CSS_FILES[i] \in DOMAIN fs /\ fs[CSS_FILES[i]] = OMEGA_CSS
    /\ \A i \in Len(BaselineJs) + 1..Len(JS_FILES) :
          JS_FILES[i] \in DOMAIN fs /\ fs[JS_FILES[i]] = OMEGA_JS
    /\ \A k \in 1..Len(calls) :
          LET c == calls[k]
              omegacss == join(c.static, OmegaCssName)
              omegajs == join(c.static, OmegaJsName)
          IN  /\ \/ c.cssAfter = c.cssBefore
                 \/ /\ c.cssAfter = Append(c.cssBefore, omegacss)
                    /\ omegacss \in c.wrote
              /\ \/ c.jsAfter = c.jsBefore
                 \/ /\ c.jsAfter = Append(c.jsBefore, omegajs)
                    /\ omegajs \in c.wrote
              /\ (c.raised /\ c.fail \in {"makedirs", "css_open", "css_write"})
                 => c.cssAfter = c.cssBefore /\ c.jsAfter = c.jsBefore
              /\ (c.raised /\ c.fail \in {"js_open", "js_write"})
                 => c.jsAfter = c.jsBefore

\* a write of omega.css raised after truncating the file, and a later
\* invocation wrote and registered that path
C2_Witness ==
    \E i, j \in 1..Len(calls) :
        /\ i < j
        /\ calls[i].raised /\ calls[i].fail = "css_write"
        /\ join(calls[i].static, OmegaCssName) \in calls[j].wrote
        /\ In(join(calls[i].static, OmegaCssName), CSS_FILES)

\* the claim about one resolved list: caller is the list passed, after the
\* caller's list object after the call, REG the registry the loop read and
\* resolved the list linked in the head.  The caller overrides entry B of
\* the registry by a file f of the same name at another path, and names no
\* file like any other registry entry.
Overrides(caller, REG, k, f) ==
    /\ In(f, caller) /\ Count(f, caller) = 1
    /\ basename(f) = basename(REG[k]) /\ f # REG[k]
    /\ ~In(REG[k], caller)
    /\ \A m \in 1..Len(REG), n \in 1..Len(caller) :
          m # k => basename(caller[n]) # basename(REG[m])
    /\ \A m, n \in 1..Len(REG) : m # n => basename(REG[m]) # basename(REG[n])

DedupAsClaimed(caller, after, REG, resolved) ==
    \A k \in 1..Len(REG) : \A n \in 1..Len(caller) :
        Overrides(caller, REG, k, caller[n])
        => /\ Count(caller[n], resolved) = 1
           /\ ~In(REG[k], resolved)
           /\ \A m \in 1..Len(REG) : m # k => In(REG[m], resolved)
           /\ \A i, j \in 1..Len(resolved) :
                 (i < j /\ In(resolved[i], REG) /\ In(resolved[j], REG))
                 => \E a, b \in 1..Len(REG) :
                       a < b /\ REG[a] = resolved[i] /\ REG[b] = resolved[j]
           /\ \A i, j \in 1..Len(resolved) :
                 (In(resolved[i], REG) /\ In(resolved[j], caller)) => i < j
           /\ after = caller

\* C3: after a completed init_page call whose stylesheet (script) list
\* holds a file named like registry entry B at another path, the resolved
\* list holds the caller's file once and not B, holds every other registry
\* entry, keeps the registry entries in registry order and before every
\* caller entry, and the caller's list is as it was passed.
C3_OverrideKeepsOthers ==
    (head.done /\ ~head.raised)
    => /\ DedupAsClaimed(head.css, head.cssAfter, head.regCss, head.links)
       /\ DedupAsClaimed(head.script, head.scriptAfter, head.regJs, head.scripts)

\* ------------------------------------------------- scaffold_plots' process

Images == {"a.png", "b.png"}

PlotLists == UNION {[1..n -> Images] : n \in 0..MaxPlots}

InitScaffold ==
    /\ Fresh
    /\ sc = NoSc
    /\ wr = NoWr
    /\ cf = NoCf

\* a call scaffold_plots(plots, nperrow=nperrow)
ScaffoldCall(plots, nperrow) ==
    /\ sc.phase = "idle"
    /\ \E r \in {scaffold_plots(plots, nperrow)} :
           sc' = [phase |-> "done", plots |-> plots, nperrow |-> nperrow,
                  raised |-> r.raised, page |-> r.page]
    /\ UNCHANGED <<CSS_FILES, JS_FILES, fs, dirs, calls, head, wr, cf, th>>

\* the caller takes the answer
ScaffoldDone ==
    /\ sc.phase = "done"
    /\ sc' = NoSc
    /\ UNCHANGED <<CSS_FILES, JS_FILES, fs, dirs, calls, head, wr, cf, th>>

NextScaffold ==
    \/ \E plots \in PlotLists, nperrow \in 1..MaxPerRow : ScaffoldCall(plots, nperrow)
    \/ ScaffoldDone

SpecScaffold == InitScaffold /\ [][NextScaffold]_vars

\* ---------------------------------------------------------------- C4, C5

\* reading the markup with a stack of the divs open: a row opens at the top
\* level only, a column inside a row only, an image inside a column that
\* holds none yet, and a close closes the innermost div, a column only
\* once it holds its image; at the end nothing is left open
RECURSIVE WellNested(_, _)
WellNested(page, stack) ==
    IF page = <<>> THEN stack = <<>>
    ELSE LET e == Head(page)
             rest == Tail(page)
             below == SubSeq(stack, 1, Len(stack) - 1)
         IN  CASE e.t = "div" /\ e.class = "row" ->
                    stack = <<>> /\ WellNested(rest, <<"row">>)
               [] e.t = "div" /\ e.class = "col-sm" ->
                    stack = <<"row">> /\ WellNested(rest, <<"row", "col">>)
               [] e.t = "a-img" ->
                    stack = <<"row", "col">> /\ WellNested(rest, <<"row", "full">>)
               [] e.t = "/div" ->
                    /\ stack # <<>>
                    /\ Last(stack) # "col"
                    /\ WellNested(rest, below)
               [] OTHER -> FALSE

IsRow(e) == e.t = "div" /\ e.class = "row"
IsCol(e) == e.t = "div" /\ e.class = "col-sm"
IsImg(e) == e.t = "a-img"

ImagesOf(page) ==
    LET imgs == SelectSeq(page, IsImg)
    IN  [k \in 1..Len(imgs) |-> imgs[k].img]

CeilDiv(n, d) == (n + d - 1) \div d

\* C4: for N >= 1 images and nperrow >= 1 the call returns markup with
\* ceil(N/nperrow) row divs and N column divs, the images one per column in
\* input order, and every div opened is closed exactly once, the row of a
\* trailing partial row included and no row twice.
C4_GridPartition ==
    (sc.phase = "done" /\ Len(sc.plots) >= 1)
    => /\ sc.raised = ""
       /\ Len(SelectSeq(sc.page, IsRow)) = CeilDiv(Len(sc.plots), sc.nperrow)
       /\ Len(SelectSeq(sc.page, IsCol)) = Len(sc.plots)
       /\ ImagesOf(sc.page) = sc.plots
       /\ WellNested(sc.page, <<>>)

\* seven images in rows of three: the last row holds one image
C4_Witness ==
    /\ sc.phase = "done"
    /\ Len(sc.plots) = 7 /\ sc.nperrow = 3
    /\ sc.raised = ""
    /\ Len(SelectSeq(sc.page, IsRow)) = 3

\* C5: for an empty list of images the call returns normally, with markup
\* holding no row div and no column div.
C5_EmptyReturnsNoRows ==
    (sc.phase = "done" /\ Len(sc.plots) = 0)
    => /\ sc.raised = ""
       /\ Len(SelectSeq(sc.page, IsRow)) = 0
       /\ Len(SelectSeq(sc.page, IsCol)) = 0

\* --------------------------------------------- write_config_html's process

ReturnCodes == {0, 1, -9}

HighlightEnvs ==
    [popen : {"started", "OSError", "ValueError"},
     returncode : ReturnCodes,
     out : {"<span>[a]</span>", "<span>[b]</span>"},
     readable : BOOLEAN,
     text : {"[a]", "[b]"}]

IniFile == <<"run.ini">>

InitConfig ==
    /\ Fresh
    /\ sc = NoSc
    /\ wr = NoWr
    /\ cf = NoCf

\* a call write_config_html(filepath, format=format)
ConfigHtmlCall(filepath, format, env) ==
    /\ cf.phase = "idle"
    /\ \E r \in {write_config_html(filepath, format, env)} :
           cf' = [phase |-> "done", filepath |-> filepath, format |-> format,
                  env |-> env, raised |-> r.raised, ret |-> r.ret]
    /\ UNCHANGED <<CSS_FILES, JS_FILES, fs, dirs, calls, head, sc, wr, th>>

\* the caller takes the answer
ConfigHtmlDone ==
    /\ cf.phase = "done"
    /\ cf' = NoCf
    /\ UNCHANGED <<CSS_FILES, JS_FILES, fs, dirs, calls, head, sc, wr, th>>

NextConfig ==
    \/ \E format \in {"ini", "xml"}, env \in HighlightEnvs :
           ConfigHtmlCall(IniFile, format, env)
    \/ ConfigHtmlDone

SpecConfig == InitConfig /\ [][NextConfig]_vars

\* --------------------------------------------------------------------- C10

Fallback(env) ==
    env.popen = "OSError" \/ (env.popen = "started" /\ env.returncode # 0)

\* C10: write_config_html returns the highlighter's output when the
\* highlighter starts and exits 0; when it cannot be started (OSError) or
\* exits non-zero the call returns the file's content verbatim and raises
\* nothing, as long as the file can be read; an unreadable file in the
\* fallback, or another error starting the process, is raised to the caller.
C10_HighlightOrVerbatim ==
    cf.phase = "done"
    => /\ (cf.env.popen = "started" /\ cf.env.returncode = 0)
          => (cf.raised = "" /\ cf.ret = cf.env.out)
       /\ (Fallback(cf.env) /\ cf.env.readable)
          => (cf.raised = "" /\ cf.ret = cf.env.text)
       /\ (Fallback(cf.env) /\ ~cf.env.readable) => cf.raised = "IOError"
       /\ cf.env.popen = "ValueError" => cf.raised = "ValueError"

\* the highlighter ran and exited non-zero, and the file's text came back
C10_Witness ==
    /\ cf.phase = "done"
    /\ cf.env.popen = "started" /\ cf.env.returncode # 0
    /\ cf.raised = "" /\ cf.ret = cf.env.text

\* ------------------------------------------- the wrapped writers' process

\* the options a caller passes: each of title, base, outdir, config or not
Options ==
    {t @@ b @@ o @@ c :
        t \in {<<>>, "title" :> <<"T">>},
        b \in {<<>>, "base" :> <<"b">>},
        o \in {<<>>, "outdir" :> <<"out">>},
        c \in {<<>>, "config" :> <<IniFile>>}}

\* the writers and their positional arguments: channel blocks as the lists
\* of their plots, a reason, a list of configuration files
Writers ==
    {[func |-> "write_qscan_page", args |-> << <<"a.png", "b.png">> >>],
     [func |-> "write_qscan_page", args |-> << <<"a.png">>, <<>> >>],
     [func |-> "write_null_page", args |-> "No significant channels"],
     [func |-> "write_about_page", args |-> <<IniFile>>]}

WrapIfos == {"H1", "X1"}
SummaryIfos == DOMAIN OBSERVATORY_MAP \cup {"X1"}

\* the highlighter and the configuration file during an about page's content
WrapEnvs ==
    {e \in HighlightEnvs :
        /\ e.out = "<span>[a]</span>" /\ e.text = "[a]"
        /\ e.popen # "ValueError" /\ e.returncode \in {0, 1}
        /\ (e.popen = "OSError" => e.returncode = 0)}

InitWrap ==
    /\ Fresh
    /\ sc = NoSc
    /\ wr = NoWr
    /\ cf = NoCf

Top == wr.stack[Len(wr.stack)]
Running(pc) == wr.stack # <<>> /\ Top.pc = pc
SetTop(f) == [wr.stack EXCEPT ![Len(wr.stack)] = f]

\* an exception leaves every frame of the invocation
Raise(kind, log) ==
    wr' = [wr EXCEPT !.steps = wr.steps + 1,
                     !.stack = <<>>,
                     !.events = wr.events \o log,
                     !.result = [done |-> TRUE, raised |-> kind, ret |-> None,
                                 at |-> RaisedAt(Top.pc, Len(wr.stack))]]

\* the running frame goes on as frame f, its effects logged
Advance(f, log) ==
    wr' = [wr EXCEPT !.steps = wr.steps + 1,
                     !.stack = SetTop(f),
                     !.events = wr.events \o log]

\* a caller calls a wrapped writer: lines 288-298
WrapCall(w, ifo, kwargs, fail) ==
    /\ wr.stack = <<>>
    /\ wr.n < MaxInvocations
    /\ \E e \in {enter(w.func, ifo, "t0", w.args, kwargs, fail, dirs)} :
           /\ fail = "none" \/ e.raised
           /\ dirs' = e.dirs
           /\ wr' = [stack |-> IF e.raised THEN <<>> ELSE <<e.frame>>,
                     events |-> e.log,
                     pages |-> <<>>,
                     inner |-> <<>>,
                     steps |-> 1,
                     call |-> [func |-> w.func, ifo |-> ifo, args |-> w.args,
                               kwargs |-> kwargs],
                     result |-> IF e.raised
                                THEN [done |-> TRUE, raised |-> "OSError",
                                      ret |-> None, at |-> RaisedAt("enter", 1)]
                                ELSE NoResult,
                     n |-> wr.n + 1]
    /\ UNCHANGED <<CSS_FILES, JS_FILES, fs, calls, head, sc, cf, th>>

\* lines 299-303 without a config option: there is no about page
WrapNoAbout ==
    /\ Running("about")
    /\ "config" \notin DOMAIN Top.kwargs
    /\ Advance([Top EXCEPT !.about = None, !.pc = "init"], <<>>)
    /\ UNCHANGED <<CSS_FILES, JS_FILES, fs, dirs, calls, head, sc, cf, th>>

\* lines 299-310 with a config option: the call of write_about_page, up to
\* the creation of the about directory
WrapAbout(fail) ==
    /\ Running("about")
    /\ "config" \in DOMAIN Top.kwargs
    /\ LET config == Top.kwargs["config"]
           iargs == [Top.initargs EXCEPT !.base = about_base(Top.initargs.base)]
           aboutdir == join(Top.outdir, AboutName)
           waiting == [Top EXCEPT !.kwargs = Without(Top.kwargs, "config"),
                                  !.pc = "about_return"]
       IN  \E e \in {enter("write_about_page", Top.ifo, Top.gpstime, config,
                            nested_call_kwargs(iargs, aboutdir, config),
                            fail, dirs)} :
               /\ fail = "none" \/ e.raised
               /\ dirs' = e.dirs
               /\ IF e.raised THEN Raise("OSError", <<>>)
                  ELSE wr' = [wr EXCEPT !.steps = wr.steps + 1,
                                        !.stack = Append(SetTop(waiting), e.frame),
                                        !.events = wr.events \o e.log]
    /\ UNCHANGED <<CSS_FILES, JS_FILES, fs, calls, head, sc, cf, th>>

\* line 314: page = init_page(ifo, gpstime, **initargs)
WrapInitPage(fail) ==
    /\ Running("init")
    /\ \E r \in {init_page(Top.ifo, Top.gpstime, <<>>, <<>>, Top.initargs.base,
                            Top.initargs.title, fail,
                            CSS_FILES, JS_FILES, fs, dirs)} :
           /\ Reached(fail, r.w)
           /\ CSS_FILES' = r.w.CSS
           /\ JS_FILES' = r.w.JS
           /\ fs' = r.w.fs
           /\ dirs' = r.w.dirs
           /\ IF r.raised THEN Raise("OSError", r.w.log)
              ELSE Advance([Top EXCEPT !.page = r.page, !.pc = "summary"],
                           r.w.log)
    /\ UNCHANGED <<calls, head, sc, cf, th>>

\* lines 317-318: the analysis summary
WrapSummary ==
    /\ Running("summary")
    /\ IF ~wants_summary(Top.about)
       THEN Advance([Top EXCEPT !.pc = "content"], <<>>)
       ELSE \E t \in {write_summary(Top.ifo, Top.gpstime)} :
               IF t.raised # "" THEN Raise(t.raised, <<>>)
               ELSE Advance([Top EXCEPT
                                !.page.body = Append(Top.page.body,
                                                     Element("summary", t.cell)),
                                !.pc = "content"],
                            <<>>)
    /\ UNCHANGED <<CSS_FILES, JS_FILES, fs, dirs, calls, head, sc, cf, th>>

\* lines 320-322: _inner.html is opened, the content function runs, and its
\* answer is written
WrapContent(fail, env) ==
    /\ Running("content")
    /\ LET contentf == join(Top.outdir, InnerName)
       IN  \E c \in {call_func(Top.func, Top.args, Top.kwargs, env)} :
               IF fail = "inner_open"
               THEN fs' = fs /\ Raise("OSError", <<>>)
               ELSE IF c.raised # ""
               THEN /\ fs' = (contentf :> Truncated) @@ fs
                    /\ Raise(c.raised, <<Opened(contentf)>>)
               ELSE IF fail = "inner_write"
               THEN /\ fs' = (contentf :> Truncated) @@ fs
                    /\ Raise("OSError", <<Opened(contentf)>>)
               ELSE /\ fs' = (contentf :> InnerFile) @@ fs
                    /\ wr' = [wr EXCEPT
                                 !.steps = wr.steps + 1,
                                 !.stack = SetTop([Top EXCEPT !.pc = "close"]),
                                 !.inner = c,
                                 !.events = wr.events \o
                                     <<Opened(contentf), Written(contentf)>>]
    /\ UNCHANGED <<CSS_FILES, JS_FILES, dirs, calls, head, sc, cf, th>>

\* the frames left when the running frame returns index: the caller's, if
\* any, takes it as its about path (lines 309-312)
Return(index) ==
    LET depth == Len(wr.stack)
    IN  [k \in 1..depth - 1 |->
            IF k < depth - 1 THEN wr.stack[k]
            ELSE [wr.stack[k] EXCEPT !.about = Some(strip_index(index)),
                                     !.pc = "init"]]

\* lines 324-329: the content is embedded, close_page writes index.html and
\* the call returns its path, to the caller or into the waiting frame
WrapClose(fail) ==
    /\ Running("close")
    /\ LET contentf == join(Top.outdir, InnerName)
           index == join(Top.outdir, IndexName)
           embedded == [Top.page EXCEPT
                           !.body = Top.page.body \o
                               <<Element("content", "div"),
                                 Element("load", contentf)>>]
           page == close_page(embedded, Top.about)
           depth == Len(wr.stack)
       IN  IF fail = "index_open"
           THEN fs' = fs /\ Raise("OSError", <<>>)
           ELSE IF fail = "index_write"
           THEN /\ fs' = (index :> Truncated) @@ fs
                /\ Raise("OSError", <<Opened(index)>>)
           ELSE /\ fs' = (index :> PageFile) @@ fs
                /\ wr' = [wr EXCEPT
                             !.steps = wr.steps + 1,
                             !.events = wr.events \o
                                 <<Opened(index), Written(index)>>,
                             !.pages = Append(wr.pages,
                                 [path |-> index, func |-> Top.func,
                                  depth |-> depth, page |-> page,
                                  inner |-> wr.inner]),
                             !.inner = <<>>,
                             !.stack = Return(index),
                             !.result = IF depth = 1
                                        THEN [done |-> TRUE, raised |-> "",
                                              ret |-> Some(index), at |-> None]
                                        ELSE wr.result]
    /\ UNCHANGED <<CSS_FILES, JS_FILES, dirs, calls, head, sc, cf, th>>

\* a caller calls write_summary(ifo, gpstime) itself
SummaryCall(ifo) ==
    /\ wr.stack = <<>>
    /\ wr.n < MaxInvocations
    /\ \E t \in {write_summary(ifo, "t0")} :
           wr' = [stack |-> <<>>, events |-> <<>>, pages |-> <<>>,
                  inner |-> <<>>,
                  steps |-> 1,
                  call |-> [func |-> "write_summary", ifo |-> ifo,
                            args |-> <<>>, kwargs |-> <<>>],
                  result |-> [done |-> TRUE, raised |-> t.raised,
                              ret |-> IF t.raised = "" THEN Some(t.cell)
                                      ELSE None,
                              at |-> IF t.raised = "" THEN None
                                     ELSE RaisedAt("write_summary", 0)],
                  n |-> wr.n + 1]
    /\ UNCHANGED <<CSS_FILES, JS_FILES, fs, dirs, calls, head, sc, cf, th>>

NextWrap ==
    \/ \E w \in Writers, ifo \in WrapIfos, kwargs \in Options,
          fail \in {"none", "makedirs"} : WrapCall(w, ifo, kwargs, fail)
    \/ WrapNoAbout
    \/ \E fail \in {"none", "makedirs"} : WrapAbout(fail)
    \/ \E fail \in FsFailures : WrapInitPage(fail)
    \/ WrapSummary
    \/ \E fail \in {"none", "inner_open", "inner_write"}, env \in WrapEnvs :
          WrapContent(fail, env)
    \/ \E fail \in {"none", "index_open", "index_write"} : WrapClose(fail)
    \/ \E ifo \in SummaryIfos : SummaryCall(ifo)

SpecWrap == InitWrap /\ [][NextWrap]_vars

\* ------------------------------------------------------------ C6, C7, C8, C9

Wrapped == {"write_qscan_page", "write_null_page", "write_about_page"}

\* a call of a wrapped writer has ended, and whether it returned
Ended == wr.result.done /\ wr.call.func \in Wrapped
Returned == Ended /\ wr.result.raised = ""

\* the call's options as the caller gave them
GivenOutdir ==
    IF "outdir" \in DOMAIN wr.call.kwargs THEN wr.call.kwargs["outdir"]
    ELSE IF "base" \in DOMAIN wr.call.kwargs THEN wr.call.kwargs["base"]
    ELSE CurDir
GivenBase ==
    IF "base" \in DOMAIN wr.call.kwargs THEN wr.call.kwargs["base"] ELSE CurDir
GivenConfig == "config" \in DOMAIN wr.call.kwargs

MainIndex == join(GivenOutdir, IndexName)
AboutIndex == join(join(GivenOutdir, AboutName), IndexName)

\* the completed writes of path p by the invocation
WritesTo(p) ==
    Cardinality({k \in 1..Len(wr.events) :
                    wr.events[k].op = "write" /\ wr.events[k].path = p})

IndexWrites ==
    {k \in 1..Len(wr.events) :
        wr.events[k].op = "write" /\ basename(wr.events[k].path) = IndexName}

HasSummary(page) == \E i \in 1..Len(page.body) : page.body[i].t = "summary"
FooterOf(page) == page.body[Len(page.body)]

FramePcs == {"about", "about_return", "init", "summary", "content", "close"}

\* C6: a call of a wrapped writer that returns has written index.html in
\* its outdir exactly once and returns that path; an invocation never holds
\* more than the caller's frame and one nested about frame, the nested frame
\* has no config option, the invocation writes about/index.html at most once
\* and no other index.html, and it ends within the steps of two frames.
C6_OneIndexOneAbout ==
    /\ Len(wr.stack) <= 2
    /\ \A k \in 2..Len(wr.stack) :
          /\ wr.stack[k].func = "write_about_page"
          /\ "config" \notin DOMAIN wr.stack[k].kwargs
    /\ wr.steps <= 2 * Cardinality(FramePcs)
    /\ wr.call.func \in Wrapped
       => /\ WritesTo(MainIndex) <= 1
          /\ WritesTo(AboutIndex) <= 1
          /\ \A k \in IndexWrites : wr.events[k].path \in {MainIndex, AboutIndex}
    /\ Returned
       => /\ WritesTo(MainIndex) = 1
          /\ wr.result.ret = Some(MainIndex)
          /\ MainIndex \in DOMAIN fs /\ fs[MainIndex] = PageFile

\* a call with a config option returned after writing the about page's
\* index.html and its own
C6_Witness ==
    /\ Returned
    /\ GivenConfig
    /\ WritesTo(AboutIndex) = 1
    /\ WritesTo(MainIndex) = 1
    /\ wr.result.ret = Some(MainIndex)

\* C7: a page holds the analysis summary exactly when its invocation
\* produced an about page path, and a page written by the about writer or
\* by the null-result writer never holds it, whatever options the caller
\* passed.
C7_SummaryOnlyOnResultsPage ==
    \A k \in 1..Len(wr.pages) :
        LET w == wr.pages[k]
        IN  /\ HasSummary(w.page) <=> FooterOf(w.page).arg # None
            /\ w.func \in {"write_about_page", "write_null_page"}
               => ~HasSummary(w.page)

\* C8: a wrapped call that returns and was given config has written
\* outdir/about/index.html, and the footer of outdir/index.html links
\* "How was this page generated?" to that path without its index.html; the
\* about page's base is the parent directory when the call's base is the
\* default and the call's base otherwise; a call without config writes no
\* about page and its footer holds no link.
C8_AboutPageAndLink ==
    Returned
    => IF GivenConfig
       THEN /\ Len(wr.pages) = 2
            /\ wr.pages[1].path = AboutIndex
            /\ wr.pages[1].func = "write_about_page"
            /\ AboutIndex \in DOMAIN fs /\ fs[AboutIndex] = PageFile
            /\ wr.pages[2].path = MainIndex
            /\ FooterOf(wr.pages[2].page).arg =
                  Some([text |-> "How was this page generated?",
                        href |-> join(GivenOutdir, AboutName) \o <<Sep>>])
            /\ wr.pages[2].page.base = GivenBase
            /\ wr.pages[1].page.base =
                  IF GivenBase = CurDir THEN ParDir ELSE GivenBase
            /\ FooterOf(wr.pages[1].page).arg = None
       ELSE /\ Len(wr.pages) = 1
            /\ wr.pages[1].path = MainIndex
            /\ FooterOf(wr.pages[1].page).arg = None
            /\ \A k \in 1..Len(wr.events) :
                  ~endswith(wr.events[k].path, AboutName)
                  /\ wr.events[k].path # AboutIndex

\* a call with config and the default base returned
C8_Witness ==
    /\ Returned
    /\ GivenConfig
    /\ GivenBase = CurDir
    /\ Len(wr.pages) = 2
    /\ wr.pages[1].page.base = ParDir

\* C9 as claimed: a supported code gives the cell "<name> (<code>)", and a
\* call with any other code, of write_summary or of a wrapped writer, fails.
C9_UnknownCodeAlwaysFails ==
    wr.result.done
    => /\ (wr.call.func = "write_summary" /\ wr.call.ifo \in DOMAIN OBSERVATORY_MAP)
          => wr.result.ret =
                Some(<<OBSERVATORY_MAP[wr.call.ifo], " (", wr.call.ifo, ")">>)
       /\ wr.call.ifo \notin DOMAIN OBSERVATORY_MAP => wr.result.raised # ""

\* C9: write_summary gives the cell "<name> (<code>)" for each of the five
\* supported codes and raises KeyError for any other; a wrapped writer
\* raises KeyError only when called with an unsupported code and a config
\* option, such a call never returns nor writes its index.html, and every
\* summary a wrapped writer puts in a page holds the exact cell.
C9_LookupErrorWhereSummaryIsRendered ==
    /\ (wr.result.done /\ wr.call.func = "write_summary")
       => IF wr.call.ifo \in DOMAIN OBSERVATORY_MAP
          THEN /\ wr.result.raised = ""
               /\ wr.result.ret =
                     Some(<<OBSERVATORY_MAP[wr.call.ifo], " (", wr.call.ifo, ")">>)
          ELSE wr.result.raised = "KeyError"
    /\ Ended
       => /\ wr.result.raised = "KeyError"
             => (wr.call.ifo \notin DOMAIN OBSERVATORY_MAP /\ GivenConfig)
          /\ (wr.call.ifo \notin DOMAIN OBSERVATORY_MAP /\ GivenConfig)
             => (wr.result.raised # "" /\ WritesTo(MainIndex) = 0)
    /\ \A k \in 1..Len(wr.pages) : \A i \in 1..Len(wr.pages[k].page.body) :
          wr.pages[k].page.body[i].t = "summary"
          => /\ wr.call.ifo \in DOMAIN OBSERVATORY_MAP
             /\ wr.pages[k].page.body[i].arg =
                   <<OBSERVATORY_MAP[wr.call.ifo], " (", wr.call.ifo, ")">>

\* the lookup error of an unsupported code reached the caller of a wrapped
\* writer, after the about page was written
C9_Witness ==
    /\ Ended
    /\ wr.result.raised = "KeyError"
    /\ wr.call.ifo = "X1"
    /\ WritesTo(AboutIndex) = 1

\* ------------------------------------------------------------------- C11

AboutDir == join(GivenOutdir, AboutName)
MainInner == join(GivenOutdir, InnerName)
AboutInner == join(AboutDir, InnerName)
StaticPaths ==
    {StaticDir, join(StaticDir, OmegaCssName), join(StaticDir, OmegaJsName)}

\* the place of a file effect in the order of the invocation: the assets
\* are written by the first init_page the invocation reaches, the about
\* page's when there is one
Stage(e) ==
    IF e = MadeDir(GivenOutdir) THEN 1
    ELSE IF e = MadeDir(AboutDir) THEN 2
    ELSE IF e.path \in StaticPaths THEN (IF GivenConfig THEN 3 ELSE 6)
    ELSE IF e.path = AboutInner THEN 4
    ELSE IF e.path = AboutIndex THEN 5
    ELSE IF e.path = MainInner THEN 7
    ELSE IF e.path = MainIndex THEN 8
    ELSE 0

\* a completed write of path p lies before position k of the log
WrittenBefore(p, k) == \E i \in 1..k - 1 : wr.events[i] = Written(p)

AssetsRegistered ==
    /\ In(join(StaticDir, OmegaCssName), CSS_FILES)
    /\ In(join(StaticDir, OmegaJsName), JS_FILES)

\* C11: the file effects of a wrapped invocation come in one order: outdir,
\* then with config the about page (its directory, its _inner.html, its
\* index.html), then the assets and the page shell, then outdir/_inner.html,
\* and outdir/index.html last; a file is opened before it is written, and an
\* index.html is written only after the _inner.html it loads.
C11_FixedOrder ==
    wr.call.func \in Wrapped
    => /\ \A i, j \in 1..Len(wr.events) :
             i < j => /\ Stage(wr.events[i]) >= 1
                      /\ Stage(wr.events[i]) <= Stage(wr.events[j])
                      /\ wr.events[i].path = wr.events[j].path
                         => (wr.events[i].op = "open"
                             /\ wr.events[j].op = "write")
       /\ \A k \in 1..Len(wr.events) :
             /\ wr.events[k] = Written(MainIndex)
                => /\ k = Len(wr.events)
                   /\ WrittenBefore(MainInner, k)
                   /\ MainInner \in DOMAIN fs /\ fs[MainInner] = InnerFile
             /\ wr.events[k] = Written(AboutIndex)
                => WrittenBefore(AboutInner, k)
       /\ wr.stack # <<>>
          => LET pc == wr.stack[1].pc
             IN  /\ GivenOutdir \in dirs
                 /\ (GivenConfig /\ pc \in {"init", "summary", "content", "close"})
                    => (WritesTo(AboutInner) = 1 /\ WritesTo(AboutIndex) = 1)
                 /\ pc \in {"about", "about_return", "init"}
                    => wr.stack[1].page = NoPage
                 /\ pc \in {"summary", "content", "close"}
                    => (AssetsRegistered /\ wr.stack[1].page # NoPage)
                 /\ pc # "close"
                    => \A k \in 1..Len(wr.events) :
                          wr.events[k].path \notin {MainInner, MainIndex}
                 /\ pc = "close" => WritesTo(MainInner) = 1

\* a call with config returned after every effect of the order: both
\* directories made, the assets written, and the four files
C11_Witness ==
    /\ Returned
    /\ GivenConfig
    /\ Len(wr.events) >= 1 /\ wr.events[1] = MadeDir(GivenOutdir)
    /\ WritesTo(join(StaticDir, OmegaCssName)) = 1
    /\ WritesTo(AboutInner) = 1
    /\ WritesTo(AboutIndex) = 1
    /\ WritesTo(MainInner) = 1
    /\ wr.events[Len(wr.events)] = Written(MainIndex)

\* --------------------- write_static_files in threads, statement by statement

\* the directory strings the threads are called with
RaceDirs == {StaticDir, <<"out">>}

Registry(kind) == IF kind = "css" THEN CSS_FILES ELSE JS_FILES

\* omegacss = os.path.join(static, 'omega.css'), and omegajs
asset_path(static, kind) ==
    join(static, IF kind = "css" THEN OmegaCssName ELSE OmegaJsName)

asset_text(kind) == IF kind = "css" THEN OMEGA_CSS ELSE OMEGA_JS

\* the test left out: every call goes on to write and register
not_registered_ignored(path, REG) == TRUE

\* `if omegacss not in CSS_FILES:`
not_registered(path, REG) == ~In(path, REG)

\* the statement after a block: the js block after the css one, then return
after_block(kind) == IF kind = "css" THEN At("check", "js") ELSE At("return", "")

InitRace ==
    /\ Fresh
    /\ sc = NoSc
    /\ wr = NoWr
    /\ cf = NoCf

\* a thread calls write_static_files(static)
ThreadCall(t, static) ==
    /\ th.threads[t].pc = At("idle", "")
    /\ th' = [th EXCEPT !.threads[t].pc = At("isdir", ""),
                        !.threads[t].static = static]
    /\ UNCHANGED <<CSS_FILES, JS_FILES, fs, dirs, calls, head, sc, wr, cf>>

\* `if not os.path.isdir(static):`
ThreadIsDir(t) ==
    /\ th.threads[t].pc = At("isdir", "")
    /\ th' = [th EXCEPT !.threads[t].pc =
                 IF th.threads[t].static \in dirs THEN At("check", "css")
                 ELSE At("makedirs", "")]
    /\ UNCHANGED <<CSS_FILES, JS_FILES, fs, dirs, calls, head, sc, wr, cf>>

\* `os.makedirs(static)`: FileExistsError when the directory was made since
\* the test
ThreadMakedirs(t) ==
    /\ th.threads[t].pc = At("makedirs", "")
    /\ IF th.threads[t].static \in dirs
       THEN /\ th' = [th EXCEPT !.threads[t].pc = At("done", ""),
                                !.threads[t].raised = "FileExistsError"]
            /\ dirs' = dirs
       ELSE /\ th' = [th EXCEPT !.threads[t].pc = At("check", "css")]
            /\ dirs' = dirs \cup {th.threads[t].static}
    /\ UNCHANGED <<CSS_FILES, JS_FILES, fs, calls, head, sc, wr, cf>>

\* the membership test of a block
ThreadCheck(t, kind) ==
    /\ th.threads[t].pc = At("check", kind)
    /\ LET path == asset_path(th.threads[t].static, kind)
           absent == not_registered(path, Registry(kind))
       IN  th' = [th EXCEPT
                     !.threads[t].blocks[kind].checked = TRUE,
                     !.threads[t].blocks[kind].seen = Count(path, Registry(kind)),
                     !.threads[t].blocks[kind].entered = absent,
                     !.threads[t].pc = IF absent THEN At("open", kind)
                                       ELSE after_block(kind)]
    /\ UNCHANGED <<CSS_FILES, JS_FILES, fs, dirs, calls, head, sc, wr, cf>>

\* `with open(path, 'w') as f:` empties the file
ThreadOpen(t, kind) ==
    /\ th.threads[t].pc = At("open", kind)
    /\ fs' = (asset_path(th.threads[t].static, kind) :> Truncated) @@ fs
    /\ th' = [th EXCEPT !.threads[t].pc = At("write", kind)]
    /\ UNCHANGED <<CSS_FILES, JS_FILES, dirs, calls, head, sc, wr, cf>>

\* `f.write(text)` and the end of the with block: the file holds the text
ThreadWrite(t, kind) ==
    /\ th.threads[t].pc = At("write", kind)
    /\ LET path == asset_path(th.threads[t].static, kind)
       IN  /\ fs' = (path :> asset_text(kind)) @@ fs
           /\ th' = [th EXCEPT !.threads[t].pc = At("append", kind),
                               !.threads[t].blocks[kind].wrote = TRUE,
                               !.last = (path :> t) @@ th.last]
    /\ UNCHANGED <<CSS_FILES, JS_FILES, dirs, calls, head, sc, wr, cf>>

\* `CSS_FILES.append(omegacss)`, and the same for JS_FILES
ThreadAppend(t, kind) ==
    /\ th.threads[t].pc = At("append", kind)
    /\ LET path == asset_path(th.threads[t].static, kind)
       IN  /\ CSS_FILES' = IF kind = "css" THEN Append(CSS_FILES, path)
                           ELSE CSS_FILES
           /\ JS_FILES' = IF kind = "js" THEN Append(JS_FILES, path)
                          ELSE JS_FILES
           /\ th' = [th EXCEPT
                        !.threads[t].pc = after_block(kind),
                        !.threads[t].blocks[kind].appended = TRUE,
                        !.threads[t].blocks[kind].found =
                            Count(path, Registry(kind))]
    /\ UNCHANGED <<fs, dirs, calls, head, sc, wr, cf>>

\* `return omegacss, omegajs`
ThreadReturn(t) ==
    /\ th.threads[t].pc = At("return", "")
    /\ th' = [th EXCEPT !.threads[t].pc = At("done", "")]
    /\ UNCHANGED <<CSS_FILES, JS_FILES, fs, dirs, calls, head, sc, wr, cf>>

NextRace ==
    \/ \E t \in Threads, static \in RaceDirs : ThreadCall(t, static)
    \/ \E t \in Threads : ThreadIsDir(t)
    \/ \E t \in Threads : ThreadMakedirs(t)
    \/ \E t \in Threads, kind \in Kinds : ThreadCheck(t, kind)
    \/ \E t \in Threads, kind \in Kinds : ThreadOpen(t, kind)
    \/ \E t \in Threads, kind \in Kinds : ThreadWrite(t, kind)
    \/ \E t \in Threads, kind \in Kinds : ThreadAppend(t, kind)
    \/ \E t \in Threads : ThreadReturn(t)

SpecRace == InitRace /\ [][NextRace]_vars

\* ------------------------------------------------------------------- C12

RacePaths(kind) == {asset_path(d, kind) : d \in RaceDirs}

\* the threads whose asset of this kind is path p, those that wrote it,
\* those that registered it, and those that have it open and unwritten
Users(p, kind) ==
    {t \in Threads : /\ th.threads[t].pc # At("idle", "")
                     /\ asset_path(th.threads[t].static, kind) = p}
AssetWriters(p, kind) == {t \in Users(p, kind) : th.threads[t].blocks[kind].wrote}
Appenders(p, kind) == {t \in Users(p, kind) : th.threads[t].blocks[kind].appended}
InFlight(p, kind) == {t \in Users(p, kind) : th.threads[t].pc = At("write", kind)}

\* C12: in threads, a path is in its registry once for every thread that
\* appended it; a thread enters a block exactly when its own test found the
\* path missing, and writes and appends only then; the path is in the
\* registry twice exactly when a thread appended it although the registry
\* had come to hold it since that thread's test; the file holds what the
\* last writer wrote unless a thread has it open.
C12_RaceLeavesDuplicates ==
    \A kind \in Kinds : \A p \in RacePaths(kind) :
        /\ Count(p, Registry(kind)) = Cardinality(Appenders(p, kind))
        /\ Cardinality(AssetWriters(p, kind)) >= Count(p, Registry(kind))
        /\ \A t \in Users(p, kind) :
              LET b == th.threads[t].blocks[kind]
              IN  /\ b.checked => (b.entered <=> b.seen = 0)
                  /\ b.wrote => (b.checked /\ b.entered)
                  /\ b.appended => b.wrote
                  /\ b.found > 0 => (b.appended /\ b.seen = 0)
        /\ Count(p, Registry(kind)) >= 2
           <=> \E t \in Appenders(p, kind) : th.threads[t].blocks[kind].found > 0
        /\ AssetWriters(p, kind) # {}
           => /\ p \in DOMAIN th.last /\ th.last[p] \in AssetWriters(p, kind)
              /\ p \in DOMAIN fs
              /\ fs[p] \in {asset_text(kind), Truncated}
              /\ InFlight(p, kind) = {} => fs[p] = asset_text(kind)

\* two threads called with one directory both returned, both wrote omega.css
\* and both registered it: the path is twice in CSS_FILES
C12_Witness ==
    \E t1, t2 \in Threads :
        /\ t1 # t2
        /\ th.threads[t1].static = th.threads[t2].static
        /\ \A t \in {t1, t2} :
              /\ th.threads[t].pc = At("done", "")
              /\ th.threads[t].raised = ""
              /\ th.threads[t].blocks["css"].wrote
              /\ th.threads[t].blocks["css"].appended
        /\ LET p == asset_path(th.threads[t1].static, "css")
           IN  /\ Count(p, CSS_FILES) = 2
               /\ fs[p] = OMEGA_CSS
               /\ th.last[p] \in {t1, t2}

\* ------------------------------------------------------------------- C13

\* the call ended by an exception that arose before its own close_page
FailedBeforeCloser ==
    /\ Ended
    /\ wr.result.raised # ""
    /\ wr.result.at # RaisedAt("close", 1)

\* what a completely written file holds
FullText(p) ==
    IF basename(p) = IndexName THEN PageFile
    ELSE IF basename(p) = InnerName THEN InnerFile
    ELSE IF basename(p) = OmegaCssName THEN OMEGA_CSS
    ELSE OMEGA_JS

\* C13: a wrapped call that fails before its page closer returns nothing and
\* neither opens nor writes outdir/index.html; every file the invocation
\* wrote completely still holds its full text, every directory it made is
\* there, every asset it wrote is registered, and when the failure came
\* after the about page, about/_inner.html and about/index.html are in place.
C13_NoIndexAfterEarlyFailure ==
    FailedBeforeCloser
    => /\ wr.result.ret = None
       /\ \A k \in 1..Len(wr.events) :
             LET e == wr.events[k]
             IN  /\ e.path # MainIndex
                 /\ e.op = "makedirs" => e.path \in dirs
                 /\ e.op = "write"
                    => /\ e.path \in DOMAIN fs /\ fs[e.path] = FullText(e.path)
                       /\ basename(e.path) = OmegaCssName => In(e.path, CSS_FILES)
                       /\ basename(e.path) = OmegaJsName => In(e.path, JS_FILES)
       /\ (GivenConfig /\ wr.result.at[1].depth = 1
              /\ wr.result.at[1].pc \in {"init", "summary", "content"})
          => /\ WritesTo(AboutInner) = 1 /\ WritesTo(AboutIndex) = 1
             /\ fs[AboutIndex] = PageFile
             /\ AssetsRegistered

\* the write of outdir/_inner.html failed after the about page and the
\* assets were written: they are in place and there is no outdir/index.html
C13_Witness ==
    /\ FailedBeforeCloser
    /\ wr.result.raised = "OSError"
    /\ wr.result.at = RaisedAt("content", 1)
    /\ GivenConfig
    /\ WritesTo(AboutIndex) = 1
    /\ AboutIndex \in DOMAIN fs /\ fs[AboutIndex] = PageFile
    /\ WritesTo(join(StaticDir, OmegaCssName)) = 1
    /\ AssetsRegistered
    /\ MainIndex \notin DOMAIN fs

====
